---- MODULE Spec2Model ----
(***************************************************************************)
(* Model of the standalone include fixer driver, includeFixerMain, in      *)
(* include-fixer/tool/ClangIncludeFixer.cpp.                               *)
(*                                                                         *)
(* Text is a sequence of one-character strings.  The two output streams    *)
(* (llvm::errs and llvm::outs) are sequences of the tokens written to      *)
(* them; a string literal of the source is one token, a newline is the     *)
(* token "\n", and a header or a buffer contributes its characters.        *)
(***************************************************************************)
EXTENDS Integers, Sequences, FiniteSets, TLC

\* ------------------------------------------------------------------ bounds
MaxInputLen == 5
MaxUnits == 2

\* -------------------------------------------------------------- alphabets
Alphabet == {"a", "b", " ", ";", "=", ","}

Strings(n) == UNION {[1..k -> Alphabet] : k \in 0..n}

\* llvm::StringRef::trim() strips the characters " \t\n\v\f\r"; of these
\* only the blank is in Alphabet.
Whitespace == {" ", "\t", "\n", "\r"}

\* Byte values, for std::string's operator< (the order of std::set).
CharCode == [c \in Alphabet |->
               CASE c = " " -> 32 [] c = "," -> 44 [] c = ";" -> 59
                 [] c = "=" -> 61 [] c = "a" -> 97 [] c = "b" -> 98]

\* ------------------------------------------------- llvm::StringRef helpers
\* StringRef::find(char): index of the first occurrence, 0 when absent.
Find(s, c) ==
  IF \E i \in 1..Len(s) : s[i] = c
    THEN CHOOSE i \in 1..Len(s) : s[i] = c /\ \A j \in 1..(i-1) : s[j] # c
    ELSE 0

\* StringRef::split(SmallVectorImpl&, Separator) with the defaults
\* MaxSplit = -1, KeepEmpty = true: the tail is always pushed, so the empty
\* string splits into one empty piece.
RECURSIVE SplitAll(_, _)
SplitAll(s, c) ==
  LET Idx == Find(s, c) IN
  IF Idx = 0 THEN <<s>>
  ELSE <<SubSeq(s, 1, Idx - 1)>> \o SplitAll(SubSeq(s, Idx + 1, Len(s)), c)

\* A plausible bug: the split on the LAST separator (rsplit).
SplitPairLast(s, c) ==
  IF \E i \in 1..Len(s) : s[i] = c
    THEN LET Idx == CHOOSE i \in 1..Len(s) :
                      s[i] = c /\ \A j \in (i+1)..Len(s) : s[j] # c
         IN <<SubSeq(s, 1, Idx - 1), SubSeq(s, Idx + 1, Len(s))>>
    ELSE <<s, <<>>>>

\* StringRef::split(char): the pair around the first separator, or
\* (whole string, empty) when there is none.
SplitPair(s, c) ==
  LET Idx == Find(s, c) IN
  IF Idx = 0 THEN <<s, <<>>>>
  ELSE <<SubSeq(s, 1, Idx - 1), SubSeq(s, Idx + 1, Len(s))>>

RECURSIVE Trim(_)
Trim(s) ==
  IF s # <<>> /\ Head(s) \in Whitespace THEN Trim(Tail(s))
  ELSE IF s # <<>> /\ s[Len(s)] \in Whitespace
         THEN Trim(SubSeq(s, 1, Len(s) - 1))
         ELSE s

\* find_all_symbols::SymbolInfo(Name, Type, FilePath, LineNumber, Contexts)
SymbolInfo(Name, Type, FilePath, LineNumber) ==
  [Name |-> Name, Type |-> Type, FilePath |-> FilePath,
   LineNumber |-> LineNumber]

\* Body of the loop over SemicolonSplits: the records pushed for one Pair.
PairSymbols(Pair) ==
  LET Split == SplitPair(Pair, "=")
      CommaSplits == SplitAll(Split[2], ",")
  IN  [i \in 1..Len(CommaSplits) |->
         SymbolInfo(Trim(Split[1]), "Unknown", Trim(CommaSplits[i]), 1)]

RECURSIVE ConcatAll(_)
ConcatAll(ss) ==
  IF ss = <<>> THEN <<>> ELSE Head(ss) \o ConcatAll(Tail(ss))

\* The vector Symbols after the loop over SemicolonSplits.
FixedSymbols(In) ==
  LET SemicolonSplits == SplitAll(In, ";")
  IN  ConcatAll([i \in 1..Len(SemicolonSplits) |->
                   PairSymbols(SemicolonSplits[i])])

\* ------------------------------------------------------- std::set<string>
\* std::string::operator<, byte-wise lexicographic.
RECURSIVE LexLess(_, _)
LexLess(x, y) ==
  IF y = <<>> THEN FALSE
  ELSE IF x = <<>> THEN TRUE
  ELSE IF CharCode[Head(x)] # CharCode[Head(y)]
         THEN CharCode[Head(x)] < CharCode[Head(y)]
         ELSE LexLess(Tail(x), Tail(y))

\* Iteration order of std::set<std::string>: ascending, each element once.
RECURSIVE SetOrder(_)
SetOrder(S) ==
  IF S = {} THEN <<>>
  ELSE LET m == CHOOSE x \in S : \A y \in S \ {x} : LexLess(x, y)
       IN  <<m>> \o SetOrder(S \ {m})

\* ------------------------------------------------- tooling::Replacement(s)
Replacement(FilePath, Offset, Length, Text) ==
  [FilePath |-> FilePath, Offset |-> Offset, Length |-> Length, Text |-> Text]

\* Two edits of one file overlap when their ranges intersect or when they
\* start at the same offset.
Overlap(e1, e2) ==
  /\ e1.FilePath = e2.FilePath
  /\ \/ e1.Offset = e2.Offset
     \/ e1.Offset < e2.Offset /\ e2.Offset < e1.Offset + e1.Length
     \/ e2.Offset < e1.Offset /\ e1.Offset < e2.Offset + e2.Length

HasConflict(edits) ==
  \E i, j \in 1..Len(edits) : i < j /\ Overlap(edits[i], edits[j])

RECURSIVE SortByOffset(_)
SortByOffset(edits) ==
  IF edits = <<>> THEN <<>>
  ELSE LET i == CHOOSE k \in 1..Len(edits) :
                  /\ \A l \in 1..Len(edits) : edits[k].Offset <= edits[l].Offset
                  /\ \A l \in 1..(k-1) : edits[l].Offset # edits[k].Offset
       IN  <<edits[i]>> \o
           SortByOffset(SubSeq(edits, 1, i-1) \o SubSeq(edits, i+1, Len(edits)))

\* One left-to-right pass over the original buffer: copy the unedited span,
\* substitute the edited one.  pos is the 1-based index of the next original
\* character; offsets are 0-based.
RECURSIVE ApplySorted(_, _, _)
ApplySorted(buf, edits, pos) ==
  IF edits = <<>> THEN SubSeq(buf, pos, Len(buf))
  ELSE LET e == Head(edits)
       IN  SubSeq(buf, pos, e.Offset) \o e.Text \o
           ApplySorted(buf, Tail(edits), e.Offset + e.Length + 1)

ApplyEdits(buf, edits) == ApplySorted(buf, SortByOffset(edits), 1)

\* The sub-lists of edits (order kept) that are free of conflicts.
ConflictFreeSubs(edits) ==
  LET Pick(I) == LET F[k \in 0..Len(edits)] ==
                       IF k = 0 THEN <<>>
                       ELSE IF k \in I THEN Append(F[k-1], edits[k])
                                       ELSE F[k-1]
                 IN  F[Len(edits)]
  IN  {s \in {Pick(I) : I \in SUBSET (1..Len(edits))} : ~HasConflict(s)}

\* tooling::applyAllReplacements is library code.  On a conflict-free list
\* it yields the edited text.  On a list with overlapping edits its outcome
\* is not fixed by this file: it either signals failure (the empty string
\* for the string overload, false for the Rewriter overload, with whatever
\* part was applied left in the rewrite buffer) or it succeeds with only a
\* conflict-free part of the edits in effect.
StringResults(buf, edits) ==
  IF ~HasConflict(edits)
    THEN {[ok |-> TRUE, text |-> ApplyEdits(buf, edits)]}
    ELSE {[ok |-> FALSE, text |-> <<>>]} \cup
         {[ok |-> TRUE, text |-> ApplyEdits(buf, s)] :
            s \in ConflictFreeSubs(edits)}

\* The Rewriter overload also returns false, with nothing applied, when the
\* file of a replacement cannot be opened (Replacement::apply).
RewriterResults(buf, edits) ==
  IF edits = <<>>
    THEN {[ok |-> TRUE, text |-> buf, touched |-> FALSE]}
  ELSE IF ~HasConflict(edits)
    THEN {[ok |-> TRUE, text |-> ApplyEdits(buf, edits), touched |-> TRUE],
          [ok |-> FALSE, text |-> buf, touched |-> FALSE]}
    ELSE {[ok |-> b, text |-> ApplyEdits(buf, s), touched |-> s # <<>>] :
            b \in BOOLEAN, s \in ConflictFreeSubs(edits)}

\* tooling::Replacements is std::set<Replacement>: duplicates collapse.
RECURSIVE Dedup(_)
Dedup(edits) ==
  IF edits = <<>> THEN <<>>
  ELSE LET r == Dedup(SubSeq(edits, 1, Len(edits) - 1))
           e == edits[Len(edits)]
       IN  IF \E i \in 1..Len(r) : r[i] = e THEN r ELSE Append(r, e)

\* ------------------------------------------------------------ environment
\* Non-empty content the input stream may deliver, and the content of every
\* source file on disk before the run.
StdinText == <<"x", "y">>
FileText == <<"x", "y">>

\* The -input values of the driver runs: empty, a segment without "=", and
\* a symbol with two headers.
DriverInputs == {<<>>, <<"a">>, <<"a", "=", "b", ",", "a">>}

\* Headers a persisted index can supply.
HeaderUniverse == {<<"a">>, <<"a", "b">>, <<"b">>}

\* What IncludeFixerActionFactory may append to Replacements for one unit:
\* nothing, one insertion, two disjoint edits, two overlapping edits.
EditLists(u) ==
  { <<>>,
    <<Replacement(u, 0, 0, <<"i">>)>>,
    <<Replacement(u, 0, 0, <<"i">>), Replacement(u, 1, 1, <<>>)>>,
    <<Replacement(u, 0, 1, <<"j">>), Replacement(u, 0, 2, <<"k">>)>> }

\* ------------------------------------------------------------------ state
VARIABLES
  STDINMode,        \* -stdin
  DatabaseFormat,   \* -db: "fixed" or "yaml"
  Input,            \* -input
  Quiet,            \* -q
  NumUnits,         \* options.getSourcePathList() is 1..NumUnits
  DBLoadable,       \* whether the yaml database can be found and parsed
  pc,               \* position in includeFixerMain
  stdinState,       \* "unread", "error" or "ok" (MemoryBuffer::getSTDIN)
  Code,             \* the buffer read from the input stream
  index,            \* "unset", "loaded" or "failed"
  Symbols,          \* records handed to InMemorySymbolIndex
  Headers,          \* std::set<std::string> Headers
  Replacements,     \* std::vector<tooling::Replacement> Replacements
  nextUnit,         \* next source path ClangTool::run will process
  ProcessingFailed, \* ClangTool::run's failure flag
  detected,         \* units the detector has been run on
  errs,             \* tokens written to llvm::errs()
  outs,             \* tokens written to llvm::outs()
  disk,             \* content of each source file on disk
  applied,          \* "none", "stdin" or "disk": which application ran
  applyFailed,      \* applyAllReplacements signalled a failure
  writeFailed,      \* overwriteChangedFiles failed to write a file
  exitCode          \* -1 while running, then the value returned by main

config == <<STDINMode, DatabaseFormat, Input, Quiet, NumUnits, DBLoadable>>
vars == <<config, pc, stdinState, Code, index, Symbols, Headers, Replacements,
          nextUnit, ProcessingFailed, detected, errs, outs, disk, applied,
          applyFailed, writeFailed, exitCode>>

Units == 1..NumUnits

\* State after option parsing and construction of the ClangTool.  Stream
\* mode is given exactly one source path (the assertion of line 75).
InitState(inputs) ==
  /\ STDINMode \in BOOLEAN
  /\ DatabaseFormat \in {"fixed", "yaml"}
  /\ Input \in inputs
  /\ Quiet \in BOOLEAN
  /\ NumUnits \in 1..MaxUnits
  /\ STDINMode => NumUnits = 1
  /\ DBLoadable \in BOOLEAN
  /\ pc = "stdin"
  /\ stdinState = "unread"
  /\ Code = <<>>
  /\ index = "unset"
  /\ Symbols = <<>>
  /\ Headers = {}
  /\ Replacements = <<>>
  /\ nextUnit = 1
  /\ ProcessingFailed = FALSE
  /\ detected = {}
  /\ errs = <<>>
  /\ outs = <<>>
  /\ disk = [u \in 1..NumUnits |-> FileText]
  /\ applied = "none"
  /\ applyFailed = FALSE
  /\ writeFailed = FALSE
  /\ exitCode = -1

Init == InitState(DriverInputs)

\* return Code;
Return(code) ==
  /\ pc' = "done"
  /\ exitCode' = code

\* ---------------------------------------------------- lines 74-88: -stdin
\* A plausible bug: the error is printed but main does not return.
GetStdinErrorNoReturn ==
  /\ pc = "stdin" /\ STDINMode
  /\ stdinState' = "error"
  /\ errs' = errs \o <<"EC.message()", "\n">>
  /\ pc' = "setup"
  /\ UNCHANGED <<config, Code, index, Symbols, Headers, Replacements,
                 nextUnit, ProcessingFailed, detected, outs, disk, applied,
                 applyFailed, writeFailed, exitCode>>

\* MemoryBuffer::getSTDIN() fails: print the message, return 1.
GetStdinError ==
  /\ pc = "stdin" /\ STDINMode
  /\ stdinState' = "error"
  /\ errs' = errs \o <<"EC.message()", "\n">>
  /\ Return(1)
  /\ UNCHANGED <<config, Code, index, Symbols, Headers, Replacements,
                 nextUnit, ProcessingFailed, detected, outs, disk, applied,
                 applyFailed, writeFailed>>

\* A plausible bug: no test of the buffer size, the empty buffer is mapped.
SkipEmptyFileMissing ==
  /\ pc = "stdin" /\ STDINMode
  /\ stdinState' = "ok"
  /\ Code' = <<>>
  /\ pc' = "setup"
  /\ UNCHANGED <<config, index, Symbols, Headers, Replacements, nextUnit,
                 ProcessingFailed, detected, errs, outs, disk, applied,
                 applyFailed, writeFailed, exitCode>>

\* The stream is read and is empty: return 0.
SkipEmptyFile ==
  /\ pc = "stdin" /\ STDINMode
  /\ stdinState' = "ok"
  /\ Code' = <<>>
  /\ Return(0)
  /\ UNCHANGED <<config, index, Symbols, Headers, Replacements, nextUnit,
                 ProcessingFailed, detected, errs, outs, disk, applied,
                 applyFailed, writeFailed>>

\* The stream is read and is not empty: tool.mapVirtualFile.
MapVirtualFile ==
  /\ pc = "stdin" /\ STDINMode
  /\ stdinState' = "ok"
  /\ Code' = StdinText
  /\ pc' = "setup"
  /\ UNCHANGED <<config, index, Symbols, Headers, Replacements, nextUnit,
                 ProcessingFailed, detected, errs, outs, disk, applied,
                 applyFailed, writeFailed, exitCode>>

\* Not in stream mode: the block is skipped.
NoStdinMode ==
  /\ pc = "stdin" /\ ~STDINMode
  /\ pc' = "setup"
  /\ UNCHANGED <<config, stdinState, Code, index, Symbols, Headers,
                 Replacements, nextUnit, ProcessingFailed, detected, errs,
                 outs, disk, applied, applyFailed, writeFailed, exitCode>>

\* ------------------------------------------- lines 91-139: the data source
\* case fixed: parse Input, add an InMemorySymbolIndex.
SetUpFixed ==
  /\ pc = "setup" /\ DatabaseFormat = "fixed"
  /\ Symbols' = FixedSymbols(Input)
  /\ index' = "loaded"
  /\ pc' = "run"
  /\ UNCHANGED <<config, stdinState, Code, Headers, Replacements, nextUnit,
                 ProcessingFailed, detected, errs, outs, disk, applied,
                 applyFailed, writeFailed, exitCode>>

\* case yaml, the database is loaded (createFromFile when Input is given,
\* createFromDirectory otherwise).
SetUpYaml ==
  /\ pc = "setup" /\ DatabaseFormat = "yaml"
  /\ DBLoadable
  /\ index' = "loaded"
  /\ pc' = "run"
  /\ UNCHANGED <<config, stdinState, Code, Symbols, Headers, Replacements,
                 nextUnit, ProcessingFailed, detected, errs, outs, disk,
                 applied, applyFailed, writeFailed, exitCode>>

\* A plausible bug: the error is printed but main goes on without an index.
YamlLoadErrorNoReturn ==
  /\ pc = "setup" /\ DatabaseFormat = "yaml"
  /\ ~DBLoadable
  /\ index' = "failed"
  /\ errs' = errs \o <<"Couldn't find YAML db: ", "DB.getError().message()",
                       "\n">>
  /\ pc' = "run"
  /\ UNCHANGED <<config, stdinState, Code, Symbols, Headers, Replacements,
                 nextUnit, ProcessingFailed, detected, outs, disk, applied,
                 applyFailed, writeFailed, exitCode>>

\* case yaml, !DB: print the error, return 1.
YamlLoadError ==
  /\ pc = "setup" /\ DatabaseFormat = "yaml"
  /\ ~DBLoadable
  /\ index' = "failed"
  /\ errs' = errs \o <<"Couldn't find YAML db: ", "DB.getError().message()",
                       "\n">>
  /\ Return(1)
  /\ UNCHANGED <<config, stdinState, Code, Symbols, Headers, Replacements,
                 nextUnit, ProcessingFailed, detected, outs, disk, applied,
                 applyFailed, writeFailed>>

\* ------------------------------------------- lines 142-151: tool.run
\* Headers the symbol index can answer with.
HeaderCandidates ==
  IF DatabaseFormat = "fixed"
    THEN {Symbols[i].FilePath : i \in 1..Len(Symbols)}
    ELSE HeaderUniverse

\* ClangTool::run processes the source paths in order.  For one path the
\* frontend action succeeds: the factory inserts the chosen headers into
\* Headers and appends the unit's edits to Replacements.
RunUnit ==
  /\ pc = "run" /\ nextUnit <= NumUnits
  /\ \E hs \in SUBSET HeaderCandidates, es \in EditLists(nextUnit) :
       /\ Headers' = Headers \cup hs
       /\ Replacements' = Replacements \o es
  /\ detected' = detected \cup {nextUnit}
  /\ nextUnit' = nextUnit + 1
  /\ UNCHANGED <<config, pc, stdinState, Code, index, Symbols,
                 ProcessingFailed, errs, outs, disk, applied, applyFailed,
                 writeFailed, exitCode>>

\* For one path the frontend action fails: ClangTool::run notes the failure
\* and goes on with the next path.
RunUnitFails ==
  /\ pc = "run" /\ nextUnit <= NumUnits
  /\ ProcessingFailed' = TRUE
  /\ detected' = detected \cup {nextUnit}
  /\ nextUnit' = nextUnit + 1
  /\ UNCHANGED <<config, pc, stdinState, Code, index, Symbols, Headers,
                 Replacements, errs, outs, disk, applied, applyFailed,
                 writeFailed, exitCode>>

\* A plausible bug: the failure is printed but main goes on to apply.
ToolRunFailedNoReturn ==
  /\ pc = "run" /\ nextUnit > NumUnits /\ ProcessingFailed
  /\ errs' = errs \o
       <<"Clang died with a fatal error! (incorrect include paths?)", "\n">>
  /\ pc' = "apply"
  /\ UNCHANGED <<config, stdinState, Code, index, Symbols, Headers,
                 Replacements, nextUnit, ProcessingFailed, detected, outs,
                 disk, applied, applyFailed, writeFailed, exitCode>>

\* tool.run(&Factory) != 0: print the error, return 1.
ToolRunFailed ==
  /\ pc = "run" /\ nextUnit > NumUnits /\ ProcessingFailed
  /\ errs' = errs \o
       <<"Clang died with a fatal error! (incorrect include paths?)", "\n">>
  /\ Return(1)
  /\ UNCHANGED <<config, stdinState, Code, index, Symbols, Headers,
                 Replacements, nextUnit, ProcessingFailed, detected, outs,
                 disk, applied, applyFailed, writeFailed>>

\* ------------------------------------------- lines 153-155: the report
\* errs() << "Added #include " << Header, for each Header of the set.
AddedReport(hs) ==
  LET order == SetOrder(hs)
  IN  ConcatAll([i \in 1..Len(order) |-> <<"Added #include ">> \o order[i]])

ReportHeaders ==
  /\ pc = "run" /\ nextUnit > NumUnits /\ ~ProcessingFailed
  /\ errs' = IF Quiet THEN errs ELSE errs \o AddedReport(Headers)
  /\ pc' = "apply"
  /\ UNCHANGED <<config, stdinState, Code, index, Symbols, Headers,
                 Replacements, nextUnit, ProcessingFailed, detected, outs,
                 disk, applied, applyFailed, writeFailed, exitCode>>

\* ------------------------------------------- lines 164-175: application
\* The edits of Replacements that name the file of unit u.
EditsOf(u) == SelectSeq(Replacements, LAMBDA e : e.FilePath = u)

\* A plausible bug: no return after the output, the Rewriter also writes the
\* patched text over the file on disk.
ApplyToStdinFallThrough ==
  /\ pc = "apply" /\ STDINMode
  /\ \E r \in StringResults(Code, Dedup(Replacements)) :
       /\ outs' = outs \o r.text
       /\ applyFailed' = ~r.ok
       /\ disk' = [u \in Units |-> r.text]
  /\ applied' = "stdin"
  /\ Return(0)
  /\ UNCHANGED <<config, stdinState, Code, index, Symbols, Headers,
                 Replacements, nextUnit, ProcessingFailed, detected, errs,
                 writeFailed>>

\* if (STDINMode): apply the set of edits to the buffer, write the returned
\* string to outs(), return 0.
ApplyToStdin ==
  /\ pc = "apply" /\ STDINMode
  /\ \E r \in StringResults(Code, Dedup(Replacements)) :
       /\ outs' = outs \o r.text
       /\ applyFailed' = ~r.ok
  /\ applied' = "stdin"
  /\ Return(0)
  /\ UNCHANGED <<config, stdinState, Code, index, Symbols, Headers,
                 Replacements, nextUnit, ProcessingFailed, detected, errs,
                 disk, writeFailed>>

\* Otherwise: apply the edits through a Rewriter (the result of
\* applyAllReplacements is dropped) and return overwriteChangedFiles(), which
\* is true when a changed file could not be written.
ApplyToDisk ==
  /\ pc = "apply" /\ ~STDINMode
  /\ \E res \in [Units -> UNION {RewriterResults(disk[u], EditsOf(u)) :
                                   u \in Units}] :
       /\ \A u \in Units : res[u] \in RewriterResults(disk[u], EditsOf(u))
       /\ \E bad \in SUBSET {u \in Units : res[u].touched} :
            /\ disk' = [u \in Units |->
                          IF res[u].touched /\ u \notin bad
                            THEN res[u].text ELSE disk[u]]
            /\ writeFailed' = (bad # {})
            /\ Return(IF bad # {} THEN 1 ELSE 0)
       /\ applyFailed' = \E u \in Units : ~res[u].ok
  /\ applied' = "disk"
  /\ UNCHANGED <<config, stdinState, Code, index, Symbols, Headers,
                 Replacements, nextUnit, ProcessingFailed, detected, errs,
                 outs>>

\* ----------------------------------------------------------- specification
Next ==
  \/ GetStdinError
  \/ SkipEmptyFile
  \/ MapVirtualFile
  \/ NoStdinMode
  \/ SetUpFixed
  \/ SetUpYaml
  \/ YamlLoadError
  \/ RunUnit
  \/ RunUnitFails
  \/ ToolRunFailed
  \/ ReportHeaders
  \/ ApplyToStdin
  \/ ApplyToDisk

Spec == Init /\ [][Next]_vars

\* The fixed backend alone, over every -input of at most MaxInputLen
\* characters.
InitFixed ==
  /\ InitState(Strings(MaxInputLen))
  /\ DatabaseFormat = "fixed"
  /\ ~STDINMode
  /\ Quiet
  /\ NumUnits = 1
  /\ DBLoadable

NextFixed ==
  \/ NoStdinMode
  \/ SetUpFixed

SpecFixed == InitFixed /\ [][NextFixed]_vars

TypeOK ==
  /\ pc \in {"stdin", "setup", "run", "apply", "done"}
  /\ exitCode \in {-1, 0, 1}
  /\ (pc = "done") = (exitCode # -1)

\* ======================================================== the properties
OrigDisk == [u \in Units |-> FileText]

Records == {Symbols[i] : i \in 1..Len(Symbols)}

\* ---- the literal specification, read by position -------------------------
\* <<i, j>>: a maximal run Input[i..j] free of ";" (empty when j = i - 1).
Segments(s) ==
  {ij \in (1..(Len(s) + 1)) \X (0..Len(s)) :
     /\ ij[2] >= ij[1] - 1
     /\ ij[1] = 1 \/ s[ij[1] - 1] = ";"
     /\ ij[2] = Len(s) \/ s[ij[2] + 1] = ";"
     /\ \A k \in ij[1]..ij[2] : s[k] # ";"}

\* The position of the first "=" of a segment, 0 when it has none.
EqualsOf(s, ij) ==
  LET E == {e \in ij[1]..ij[2] : s[e] = "="}
  IN  IF E = {} THEN 0 ELSE CHOOSE e \in E : \A f \in E : e <= f

\* <<i, e, p, q>>: in the segment starting at i, with its first "=" at e, the
\* header written at Input[p..q], a maximal run free of "," after the "=".
WrittenSpans(s) ==
  UNION { LET e == EqualsOf(s, ij) IN
          IF e = 0 THEN {}
          ELSE {<<ij[1], e, pq[1], pq[2]>> :
                  pq \in {x \in ((e + 1)..(ij[2] + 1)) \X (e..ij[2]) :
                            /\ x[2] >= x[1] - 1
                            /\ x[1] = e + 1 \/ s[x[1] - 1] = ","
                            /\ x[2] = ij[2] \/ s[x[2] + 1] = ","
                            /\ \A k \in x[1]..x[2] : s[k] # ","}}
        : ij \in Segments(s) }

\* Input[lo..hi] without its leading and trailing blanks.
Stripped(s, lo, hi) ==
  LET N == {k \in lo..hi : s[k] # " "}
  IN  IF N = {} THEN <<>>
      ELSE SubSeq(s, CHOOSE k \in N : \A l \in N : k <= l,
                     CHOOSE k \in N : \A l \in N : k >= l)

\* The records the literal specification writes down.
Written(s) ==
  {[Name |-> Stripped(s, w[1], w[2] - 1), Type |-> "Unknown",
    FilePath |-> Stripped(s, w[3], w[4]), LineNumber |-> 1] :
     w \in WrittenSpans(s)}

\* Every ";"-separated segment has an "=".
WellFormed(s) == \A ij \in Segments(s) : EqualsOf(s, ij) # 0

\* C1: in stream mode, once the input stream has been read successfully and
\* is empty, the run has ended with exit code 0, nothing was written to the
\* output stream, the detector ran on no unit and no edit application was
\* attempted.
C1_EmptyStdinShortCircuit ==
  (STDINMode /\ stdinState = "ok" /\ Code = <<>>) =>
    /\ pc = "done" /\ exitCode = 0
    /\ outs = <<>>
    /\ detected = {}
    /\ Replacements = <<>> /\ applied = "none"

C1_Witness ==
  STDINMode /\ stdinState = "ok" /\ Code = <<>> /\ pc = "done"

\* C2: for a well-formed literal specification (every segment has an "="),
\* the records built by the fixed backend are exactly the (name, header)
\* pairs written in it, name and header trimmed, each with kind Unknown and
\* line 1, one record per written header; so the records of any one name are
\* exactly the pairs written for that name.
C2_FixedRecordsAreWrittenPairs ==
  (DatabaseFormat = "fixed" /\ index = "loaded" /\ WellFormed(Input)) =>
    /\ Records = Written(Input)
    /\ Len(Symbols) = Cardinality(WrittenSpans(Input))
    /\ \A n \in {r.Name : r \in Records} :
         {r \in Records : r.Name = n} = {w \in Written(Input) : w.Name = n}

C2_Witness ==
  /\ DatabaseFormat = "fixed" /\ index = "loaded" /\ WellFormed(Input)
  /\ Len(Symbols) = 2
  /\ Symbols[1].Name = <<"a">> /\ Symbols[2].Name = <<"a">>
  /\ Symbols[1].FilePath = <<"b">> /\ Symbols[2].FilePath = <<"a">>

\* C3 (as claimed): a segment without "=" contributes no record, the records
\* of the fixed backend are the written pairs and nothing else.
C3_MalformedEntrySkipped ==
  (DatabaseFormat = "fixed" /\ index = "loaded") =>
    /\ Len(Symbols) = Cardinality(WrittenSpans(Input))
    /\ Records \subseteq Written(Input)

\* C4: with the yaml backend, when loading the index fails the error is
\* reported and the run has ended with exit code 1 before any unit was
\* processed: the detector ran on no unit, no header was collected or
\* reported, no edit was applied, no file and no output stream was written.
C4_LoadFailureAborts ==
  index = "failed" =>
    /\ DatabaseFormat = "yaml"
    /\ pc = "done" /\ exitCode = 1
    /\ Len(errs) >= 3
    /\ SubSeq(errs, Len(errs) - 2, Len(errs)) =
         <<"Couldn't find YAML db: ", "DB.getError().message()", "\n">>
    /\ \A i \in 1..Len(errs) : errs[i] # "Added #include "
    /\ detected = {} /\ Headers = {} /\ Replacements = <<>>
    /\ applied = "none"
    /\ outs = <<>>
    /\ disk = OrigDisk

C4_Witness ==
  index = "failed" /\ pc = "done" /\ NumUnits >= 2 /\ ~STDINMode

\* C5 (as claimed): when detection failed for a unit the exit code is not 0
\* and yet the edits of the units whose detection succeeded are applied to
\* their files.
C5_OtherUnitsStillEdited ==
  (pc = "done" /\ ProcessingFailed) =>
    /\ exitCode # 0
    /\ \A u \in Units :
         ~HasConflict(EditsOf(u)) => disk[u] = ApplyEdits(FileText, EditsOf(u))

\* C5 (amended): when detection failed for a unit, the detector was still
\* run on every unit, the failure is reported and the exit code is 1, but
\* the run returns before any edit is applied: no file is rewritten and
\* nothing is written to the output stream.
C5_DetectionFailureAppliesNothing ==
  (pc = "done" /\ ProcessingFailed) =>
    /\ exitCode = 1
    /\ detected = Units
    /\ Len(errs) >= 2
    /\ SubSeq(errs, Len(errs) - 1, Len(errs)) =
         <<"Clang died with a fatal error! (incorrect include paths?)", "\n">>
    /\ applied = "none"
    /\ disk = OrigDisk
    /\ outs = <<>>

C5_Witness ==
  /\ pc = "done" /\ ProcessingFailed /\ NumUnits >= 2
  /\ \E u \in Units : EditsOf(u) # <<>> /\ ~HasConflict(EditsOf(u))

\* C6 (as claimed): when the collected edits of a unit overlap and edit
\* application has run, the run does not report success and the target is
\* unmodified: the file on disk is not rewritten and, in stream mode, what
\* was emitted is nothing or the original buffer.
C6_ConflictSurfaced ==
  (pc = "done" /\ applied # "none" /\ \E u \in Units : HasConflict(EditsOf(u)))
    =>
    /\ exitCode # 0
    /\ \A u \in Units : HasConflict(EditsOf(u)) => disk[u] = FileText
    /\ STDINMode => (outs = <<>> \/ outs = Code)

\* C7 (as claimed): the exit code is 0 or 1, and it is 1 exactly when the
\* input stream could not be read, the index could not be loaded, detection
\* failed, or edit application failed (the edits could not be applied, or a
\* changed file could not be rewritten).
C7_ExitCodes ==
  pc = "done" =>
    /\ exitCode \in {0, 1}
    /\ (exitCode = 1) <=>
         \/ stdinState = "error"
         \/ index = "failed"
         \/ ProcessingFailed
         \/ applyFailed
         \/ writeFailed

\* The lines of a stream: the text between newline tokens; a newline at the
\* very end terminates the last line.
Lines(tokens) ==
  LET parts == SplitAll(tokens, "\n")
  IN  IF parts[Len(parts)] = <<>> THEN SubSeq(parts, 1, Len(parts) - 1)
      ELSE parts

\* C8 (as claimed): after a successful detection run the error stream holds
\* one line "Added #include <header>" per header of Headers, in ascending
\* order, and no line in quiet mode; in stream mode the output stream holds
\* only the patched text.
C8_OneLinePerHeader ==
  (pc \in {"apply", "done"} /\ index = "loaded" /\ ~ProcessingFailed) =>
    /\ Lines(errs) =
         IF Quiet THEN <<>>
         ELSE [i \in 1..Cardinality(Headers) |->
                 <<"Added #include ">> \o SetOrder(Headers)[i]]
    /\ (STDINMode /\ applied = "stdin") =>
         outs \in {r.text : r \in StringResults(Code, Dedup(Replacements))}

\* C9: in stream mode no file on disk is ever rewritten and the Rewriter
\* path is never taken; once the edits have been applied the output stream
\* holds the buffer read from the input stream with the edits applied.
C9_StdinModeLeavesDisk ==
  STDINMode =>
    /\ disk = OrigDisk
    /\ applied # "disk"
    /\ ~writeFailed
    /\ (applied = "stdin" /\ ~HasConflict(Replacements)) =>
         outs = ApplyEdits(Code, Replacements)

C9_Witness ==
  /\ STDINMode /\ pc = "done" /\ applied = "stdin"
  /\ Replacements # <<>> /\ ~HasConflict(Replacements)
  /\ outs # Code

\* C10: in stream mode the index is set up only after the input stream was
\* read successfully and was not empty: with an empty stream the run has
\* ended with exit code 0, with a read failure it has ended with exit code
\* 1, and in both cases no index load was attempted, whether or not the
\* persisted index can be loaded.
C10_StdinBeforeIndex ==
  /\ (STDINMode /\ index # "unset") => (stdinState = "ok" /\ Code # <<>>)
  /\ (STDINMode /\ stdinState = "error") =>
       (pc = "done" /\ exitCode = 1 /\ index = "unset" /\ Symbols = <<>>)
  /\ (STDINMode /\ stdinState = "ok" /\ Code = <<>>) =>
       (exitCode = 0 /\ index = "unset" /\ Symbols = <<>>)

C10_Witness ==
  /\ STDINMode /\ stdinState = "ok" /\ Code = <<>>
  /\ DatabaseFormat = "yaml" /\ ~DBLoadable
  /\ exitCode = 0 /\ index = "unset"

====
